---- MODULE Spec2Model ----
(***************************************************************************)
(* State-machine model of the Etsy business dashboard frontend: the shared *)
(* axios client and its interceptors, the Supabase-backed auth pages, the  *)
(* AuthProvider subscription, the import page and the product-cost         *)
(* allocation rule.                                                        *)
(***************************************************************************)
EXTENDS Integers, Sequences, FiniteSets, TLC

(***************************************************************************)
(* Bounds of the model.                                                    *)
(***************************************************************************)
MaxTokens == 2
MaxTimers == 2
MaxPasswords == 2
MaxEmails == 2
MaxInflight == 1
MaxUploadKey == 1
MaxLines == 3
MaxRevenue == 2
MaxAmount == 2
MaxMoney == 2
MaxVariants == 2
MaxRows == 3
MaxChanges == 2

(***************************************************************************)
(* Supabase session values.  getSession() yields data.session, which is    *)
(* null (NoSession) or a session whose access_token is one of Tokens.      *)
(***************************************************************************)
Tokens == 1..MaxTokens
NoSession == 0
SessionValues == Tokens \cup {NoSession}

\* data?.session?.access_token is truthy
HasAccessToken(s) == s # NoSession

\* `Bearer ${session.access_token}`
Bearer(t) == <<"Bearer", t>>
NoHeader == <<>>

VARIABLES
    session,        \* what supabase.auth.getSession() returns right now
    href,           \* window.location.href (path part)
    redirectTimers, \* pending setTimeout(() => href = '/login', 2000)
    api_pc,         \* position of the request in flight
    api_client,     \* which axios instance carries the request
    api_i,          \* loop variable i of the request interceptor
    api_session,    \* local variable session of the request interceptor
    api_calls,      \* getSession calls made by the request interceptor
    api_waits,      \* 50 ms waits made by the request interceptor
    api_seen,       \* the results of those getSession calls, in order
    api_headers,    \* config.headers.Authorization
    api_status,     \* HTTP status of the response (0: none yet)
    api_result,     \* how the call settled for its caller
    api_error,      \* status of the error the caller's promise rejected with
    api_signedOut,  \* supabase.auth.signOut() was awaited for this response
    api_msg,        \* message.error shown by the response interceptor
    password,       \* the password Supabase holds for the account
    login_pc,       \* Login.onFinish: position
    login_loading,  \* Login: loading
    login_values,   \* Login: <<values.email, values.password>> of the form
    login_data,     \* Login: data.session returned by signIn
    login_verify,   \* Login: verifySession read back after the 100 ms wait
    login_msg,      \* Login: the antd message shown
    login_nav,      \* Login: target of navigate(), "none" if not called
    cp_pc,          \* ChangePassword.onFinish: position
    cp_loading,     \* ChangePassword: loading
    cp_user,        \* ChangePassword: user of useAuth()
    cp_values,      \* ChangePassword: <<currentPassword, newPassword>>
    cp_signInError, \* ChangePassword: signInError was returned
    cp_signedIn,    \* signInWithPassword returned without error
    cp_updateCalled,\* updatePassword(values.newPassword) was called
    cp_msg,         \* ChangePassword: the antd message shown
    cp_formFilled,  \* the form still holds the entered values
    cp_passwordBefore, \* the account password when the form was submitted
    rp_query,       \* ResetPassword: searchParams.get('type')
    rp_hash,        \* ResetPassword: type parameter of window.location.hash
    rp_pc,          \* ResetPassword check(): position
    rp_i,           \* ResetPassword check(): loop variable i
    rp_ready,       \* ResetPassword: ready
    rp_invalid,     \* ResetPassword: invalid
    rp_polls,       \* getSession calls made by check()
    rp_waits,       \* 150 ms waits made by check()
    rp_sawSession,  \* some getSession call of check() returned a session
    pathname,       \* AuthProvider: location.pathname
    auth_user,      \* AuthProvider: user
    auth_loading,   \* AuthProvider: loading
    auth_subs,      \* active onAuthStateChange subscriptions: the isPublic
                    \* each callback closed over
    auth_pending,   \* a getSession().then(...) of the effect is unresolved
    auth_tick,      \* parity of the auth events delivered so far
    auth_last,      \* the last auth event: <<session, pathname when delivered>>
    home_year,      \* Home: year (dropdown)
    home_month,     \* Home: month (dropdown)
    home_periods,   \* Home: periods
    home_period,    \* Home: period (the selected period, NoPeriod for null)
    home_fileStatus,\* Home: fileStatus, "null" or "loaded"
    home_loading,   \* Home: loading
    home_inflight,  \* number of fetchImportFiles calls of the [period] effect in flight
    home_lastFetch, \* the period of the effect's latest fetchImportFiles(y, m) call
    home_mount,     \* the fetchImportPeriods call of the mount effect
    home_uploading, \* Home: uploading
    home_selectedFiles, \* Home: selectedFiles, key -> a File is chosen
    home_uploadKey, \* Home: uploadKey
    home_uploadValidation, \* Home: uploadValidation
    home_up,        \* onUpload: position
    home_etl,       \* onRunEtl: position
    home_del,       \* onDeleteFile: position
    home_msg,       \* the antd message onUpload shows in this step, or "none"
    alloc_lines,    \* the sold items of one order: a sequence of <<sku, revenue>>
    alloc_refund,   \* the refund the statement records for the order
    alloc_fee,      \* the fees the statement records for the order
    alloc_refundShare, \* per sku: the refund allocated to it, or NotAllocated
    alloc_feeShare,  \* per sku: the fee allocated to it, or NotAllocated
    cost_record, \* ProductCost: the row being rendered, or NoRecord
    cost_margin, \* ProductCost: margin of the row, an exact fraction
    cost_text, \* ProductCost: margin.toFixed(1), in tenths of a percent
    detail_totals, \* ProductDetail: the accumulator of variants.reduce
    detail_count, \* ProductDetail: variants folded into the accumulator
    detail_totalMargin, \* ProductDetail: totalMargin, or NotComputed
    detail_text, \* ProductDetail: formatPercent(totalMargin), in hundredths of a percent
    db, \* warehouse: for every table the set of rows it holds
    db_last, \* warehouse: the checks and the outcome of the last statement, or NoStatement
    pl_filters, \* ProfitLossStatement: the filters selected (view_mode)
    pl_data, \* ProfitLossStatement: data, as <<filters it answers, payload>>, or NoData
    pl_loading, \* ProfitLossStatement: loading
    pl_inflight, \* ProfitLossStatement: the filters of the requests not settled yet
    pl_changes, \* ProfitLossStatement: filter changes made so far
    pl_failed \* ProfitLossStatement: a request has been rejected

envVars == <<session, href, redirectTimers>>
apiVars == <<api_pc, api_client, api_i, api_session, api_calls, api_waits,
             api_seen, api_headers, api_status, api_result, api_error,
             api_signedOut, api_msg>>
loginVars == <<login_pc, login_loading, login_values, login_data,
               login_verify, login_msg, login_nav>>
cpVars == <<cp_pc, cp_loading, cp_user, cp_values, cp_signInError, cp_signedIn,
            cp_updateCalled, cp_msg, cp_formFilled, cp_passwordBefore>>
rpVars == <<rp_query, rp_hash, rp_pc, rp_i, rp_ready, rp_invalid, rp_polls,
            rp_waits, rp_sawSession>>
authVars == <<pathname, auth_user, auth_loading, auth_subs, auth_pending,
              auth_tick, auth_last>>
homeVars == <<home_year, home_month, home_periods, home_period, home_fileStatus,
              home_loading, home_inflight, home_lastFetch, home_mount,
              home_uploading,
              home_selectedFiles, home_uploadKey, home_uploadValidation,
              home_up, home_etl, home_del, home_msg>>
allocVars == <<alloc_lines, alloc_refund, alloc_fee, alloc_refundShare,
               alloc_feeShare>>
marginVars == <<cost_record, cost_margin, cost_text, detail_totals, detail_count, detail_totalMargin, detail_text>>
dbVars == <<db, db_last>>
plVars == <<pl_filters, pl_data, pl_loading, pl_inflight, pl_changes, pl_failed>>
vars == <<envVars, apiVars, password, loginVars, cpVars, rpVars, authVars,
          homeVars, allocVars,
        marginVars,
        dbVars,
        plVars>>

Passwords == 1..MaxPasswords

\* e-mail addresses a form may hold; the account's own is AccountEmail
Emails == 1..MaxEmails
AccountEmail == 1

\* what the steps of each component leave alone
AxiosFrame == UNCHANGED <<password, loginVars, cpVars, rpVars, authVars, homeVars,
                          allocVars,
        marginVars,
        dbVars,
        plVars>>
LoginFrame == UNCHANGED <<href, redirectTimers, apiVars, cpVars, rpVars, authVars,
                          homeVars, allocVars,
        marginVars,
        dbVars,
        plVars>>
CPFrame == UNCHANGED <<href, redirectTimers, apiVars, loginVars, rpVars, authVars,
                       homeVars, allocVars,
        marginVars,
        dbVars,
        plVars>>
RPFrame == UNCHANGED <<href, redirectTimers, apiVars, password, loginVars, cpVars,
                       authVars, homeVars, allocVars,
        marginVars,
        dbVars,
        plVars>>
AuthFrame == UNCHANGED <<href, redirectTimers, apiVars, password, loginVars,
                         cpVars, rpVars, homeVars, allocVars,
        marginVars,
        dbVars,
        plVars>>
HomeFrame == UNCHANGED <<envVars, apiVars, password, loginVars, cpVars, rpVars,
                         authVars, allocVars,
        marginVars,
        dbVars,
        plVars>>
AllocFrame == UNCHANGED <<envVars, apiVars, password, loginVars, cpVars, rpVars,
                          authVars, homeVars,
        marginVars,
        dbVars,
        plVars>>
MarginFrame == UNCHANGED <<envVars, apiVars, password, loginVars, cpVars, rpVars, authVars, homeVars, allocVars,
        dbVars,
        plVars>>
SchemaFrame == UNCHANGED <<envVars, apiVars, password, loginVars, cpVars, rpVars, authVars, homeVars, allocVars, marginVars,
        plVars>>
ProfitLossFrame == UNCHANGED <<envVars, apiVars, password, loginVars, cpVars, rpVars, authVars, homeVars, allocVars, marginVars, dbVars>>

(***************************************************************************)
(* The axios instances of the frontend.  lib/axios installs the request    *)
(* and response interceptors; api/report.js and api/productCost.js create  *)
(* their own instances with axios.create and install none.                 *)
(***************************************************************************)
Clients == {"lib", "report", "productCost"}
HasInterceptors(c) == c = "lib"

Statuses == {200, 401, 500}

\* mutant: the loop bound is off by one
RetryLoopContinues_OffByOne(i) == i <= 3

\* for (let i = 0; i < 3; i++)
RetryLoopContinues(i) == i < 3

\* if (i < 2) await new Promise(resolve => setTimeout(resolve, 50))
WaitBeforeRetry(i) == i < 2

\* mutant: the header is set without testing the token
RequestHeaders_Unchecked(s) == Bearer(s)

\* if (session?.access_token) config.headers.Authorization = `Bearer ...`
RequestHeaders(s) == IF HasAccessToken(s) THEN Bearer(s) ELSE NoHeader

ApiIdle ==
    /\ api_pc = "idle"
    /\ api_client = "lib"
    /\ api_i = 0
    /\ api_session = NoSession
    /\ api_calls = 0
    /\ api_waits = 0
    /\ api_seen = <<>>
    /\ api_headers = NoHeader
    /\ api_status = 0
    /\ api_result = "none"
    /\ api_error = 0
    /\ api_signedOut = FALSE
    /\ api_msg = "none"

EnvInit ==
    /\ session \in SessionValues
    /\ href = "/"
    /\ redirectTimers = 0

LoginIdle ==
    /\ login_pc = "idle"
    /\ login_loading = FALSE
    /\ login_values = <<0, 0>>
    /\ login_data = NoSession
    /\ login_verify = NoSession
    /\ login_msg = "none"
    /\ login_nav = "none"

CPIdle ==
    /\ cp_pc = "idle"
    /\ cp_loading = FALSE
    /\ cp_user = "user"
    /\ cp_values = <<0, 0>>
    /\ cp_signInError = FALSE
    /\ cp_signedIn = FALSE
    /\ cp_updateCalled = FALSE
    /\ cp_msg = "none"
    /\ cp_formFilled = FALSE
    /\ cp_passwordBefore = 0

\* the type parameter of a URL part: absent or empty, recovery, or another
TypeValues == {"none", "recovery", "signup"}

RPUnmounted ==
    /\ rp_query = "none"
    /\ rp_hash = "none"
    /\ rp_pc = "unmounted"
    /\ rp_i = 0
    /\ rp_ready = FALSE
    /\ rp_invalid = FALSE
    /\ rp_polls = 0
    /\ rp_waits = 0
    /\ rp_sawSession = FALSE

AuthUnmounted ==
    /\ pathname = <<"/">>
    /\ auth_user = "null"
    /\ auth_loading = TRUE
    /\ auth_subs = <<>>
    /\ auth_pending = FALSE
    /\ auth_tick = 0
    /\ auth_last = <<NoSession, <<>>>>

\* options of the year and month dropdowns the model keeps (of YEARS, MONTHS)
YearOptions == {2020, 2021}
MonthOptions == {1, 2}

\* a period "YYYY-MM" is held as the pair split('-').map(parseInt) yields
NoPeriod == <<>>
AllPeriods == {<<y, m>> : y \in YearOptions, m \in MonthOptions}

\* the keys of FILE_ORDER the model keeps
FileKeys == {"statement"}

\* r.validation[key]: absent, ok, not ok with errors, not ok without errors
ValidationKinds == {"absent", "ok", "bad_errors", "bad_silent"}
NullValidation == [k \in FileKeys |-> "null"]

\* a share not computed yet
NotAllocated == <<>>

NoRecord == <<>>
NotComputed == <<>>

\* { sales: 0, unit: 0, refund: 0, cogs: 0, etsy_fee: 0, profit: 0, marginNumerator: 0 }
ZeroTotals == [sales |-> 0, refund |-> 0, cogs |-> 0, etsy_fee |-> 0,
               profit |-> 0, marginNumerator |-> 0]

\* the tables of the star schema
DimTables == {"dim_time", "dim_product", "dim_customer", "dim_order",
              "dim_geography", "dim_payment", "dim_bank_account",
              "dim_product_catalog"}
FactTables == {"fact_sales", "fact_financial_transactions", "fact_deposits",
               "fact_payments", "fact_bank_transactions"}
Tables == DimTables \cup FactTables

NoStatement == <<>>

\* useState([]) before any response
NoData == <<>>

ProfitLossUnmounted ==
    /\ pl_filters = "month"
    /\ pl_data = NoData
    /\ pl_loading = FALSE
    /\ pl_inflight = <<>>
    /\ pl_changes = 0
    /\ pl_failed = FALSE

EmptyWarehouse ==
    /\ db = [t \in Tables |-> {}]
    /\ db_last = NoStatement

MarginIdle ==
    /\ cost_record = NoRecord
    /\ cost_margin = <<0, 1>>
    /\ cost_text = 0
    /\ detail_totals = ZeroTotals
    /\ detail_count = 0
    /\ detail_totalMargin = NotComputed
    /\ detail_text = 0

NoOrder ==
    /\ alloc_lines = <<>>
    /\ alloc_refund = 0
    /\ alloc_fee = 0
    /\ alloc_refundShare = NotAllocated
    /\ alloc_feeShare = NotAllocated

HomeUnmounted ==
    /\ home_year = 2020
    /\ home_month = 1
    /\ home_periods = {}
    /\ home_period = NoPeriod
    /\ home_fileStatus = "null"
    /\ home_loading = FALSE
    /\ home_inflight = 0
    /\ home_lastFetch = NoPeriod
    /\ home_mount = "unmounted"
    /\ home_uploading = FALSE
    /\ home_selectedFiles = [k \in FileKeys |-> FALSE]
    /\ home_uploadKey = 0
    /\ home_uploadValidation = NullValidation
    /\ home_up = "idle"
    /\ home_etl = "idle"
    /\ home_del = "idle"
    /\ home_msg = "none"

InitAxios ==
    /\ EnvInit
    /\ password = 1
    /\ ApiIdle
    /\ LoginIdle
    /\ CPIdle
    /\ RPUnmounted
    /\ AuthUnmounted
    /\ HomeUnmounted
    /\ NoOrder
    /\ MarginIdle
    /\ EmptyWarehouse
    /\ ProfitLossUnmounted

(***************************************************************************)
(* Environment: Supabase persists or refreshes a session, or loses it.     *)
(***************************************************************************)
SessionEstablished(t) ==
    /\ session # t
    /\ session' = t
    /\ UNCHANGED <<href, redirectTimers, apiVars>>
    /\ AxiosFrame

SessionExpires ==
    /\ session # NoSession
    /\ session' = NoSession
    /\ UNCHANGED <<href, redirectTimers, apiVars>>
    /\ AxiosFrame

(***************************************************************************)
(* A caller issues a request through one of the axios instances.           *)
(***************************************************************************)
StartRequest(c) ==
    /\ api_pc \in {"idle", "done"}
    /\ href # "/login"
    /\ redirectTimers < MaxTimers
    /\ api_client' = c
    /\ api_i' = 0
    /\ api_session' = NoSession
    /\ api_calls' = 0
    /\ api_waits' = 0
    /\ api_seen' = <<>>
    /\ api_headers' = NoHeader
    /\ api_status' = 0
    /\ api_result' = "none"
    /\ api_error' = 0
    /\ api_signedOut' = FALSE
    /\ api_msg' = "none"
    /\ api_pc' = IF HasInterceptors(c)
                   THEN (IF RetryLoopContinues(0) THEN "getSession" ELSE "attach")
                   ELSE "sent"
    /\ UNCHANGED envVars
    /\ AxiosFrame

\* const { data } = await supabase.auth.getSession(); if (token) {...; break}
ReqGetSession ==
    /\ api_pc = "getSession"
    /\ api_calls' = api_calls + 1
    /\ api_seen' = Append(api_seen, session)
    /\ IF HasAccessToken(session)
         THEN /\ api_session' = session
              /\ api_pc' = "attach"
              /\ api_i' = api_i
         ELSE /\ api_session' = api_session
              /\ IF WaitBeforeRetry(api_i)
                   THEN /\ api_pc' = "wait"
                        /\ api_i' = api_i
                   ELSE /\ api_i' = api_i + 1
                        /\ api_pc' = IF RetryLoopContinues(api_i + 1)
                                       THEN "getSession" ELSE "attach"
    /\ UNCHANGED <<envVars, api_client, api_waits, api_headers, api_status,
                   api_result, api_error, api_signedOut, api_msg>>
    /\ AxiosFrame

\* the 50 ms timer of the retry loop fires, then i++
ReqWait ==
    /\ api_pc = "wait"
    /\ api_waits' = api_waits + 1
    /\ api_i' = api_i + 1
    /\ api_pc' = IF RetryLoopContinues(api_i + 1) THEN "getSession" ELSE "attach"
    /\ UNCHANGED <<envVars, api_client, api_session, api_calls, api_seen,
                   api_headers, api_status, api_result, api_error,
                   api_signedOut, api_msg>>
    /\ AxiosFrame

\* attach the token if one was found; return config (the request is sent)
ReqReturnConfig ==
    /\ api_pc = "attach"
    /\ api_headers' = RequestHeaders(api_session)
    /\ api_pc' = "sent"
    /\ UNCHANGED <<envVars, api_client, api_i, api_session, api_calls,
                   api_waits, api_seen, api_status, api_result, api_error,
                   api_signedOut, api_msg>>
    /\ AxiosFrame

\* the backend answers; the response interceptor acts on 401 only
ServerRespond(st) ==
    /\ api_pc = "sent"
    /\ api_status' = st
    /\ IF st = 200
         THEN /\ api_pc' = "done"
              /\ api_result' = "resolved"
              /\ api_error' = 0
         ELSE IF HasInterceptors(api_client) /\ st = 401
           THEN /\ api_pc' = "resp401"
                /\ UNCHANGED <<api_result, api_error>>
           ELSE /\ api_pc' = "done"
                /\ api_result' = "rejected"
                /\ api_error' = st
    /\ UNCHANGED <<envVars, api_client, api_i, api_session, api_calls,
                   api_waits, api_seen, api_headers, api_signedOut, api_msg>>
    /\ AxiosFrame

\* const { data: { session } } = await getSession(); message.error(errorMsg, 5)
Resp401GetSession ==
    /\ api_pc = "resp401"
    /\ api_msg' = IF HasAccessToken(session) THEN "token_invalid" ELSE "no_token"
    /\ api_pc' = "signOut"
    /\ UNCHANGED <<envVars, api_client, api_i, api_session, api_calls,
                   api_waits, api_seen, api_headers, api_status, api_result,
                   api_error, api_signedOut>>
    /\ AxiosFrame

\* await supabase.auth.signOut()
Resp401SignOut ==
    /\ api_pc = "signOut"
    /\ session' = NoSession
    /\ api_signedOut' = TRUE
    /\ api_pc' = "signedOut"
    /\ UNCHANGED <<href, redirectTimers, api_client, api_i, api_session,
                   api_calls, api_waits, api_seen, api_headers, api_status,
                   api_result, api_error, api_msg>>
    /\ AxiosFrame

\* setTimeout(() => { window.location.href = '/login' }, 2000); reject(error)
Resp401Reject ==
    /\ api_pc = "signedOut"
    /\ redirectTimers' = redirectTimers + 1
    /\ api_result' = "rejected"
    /\ api_error' = api_status
    /\ api_pc' = "done"
    /\ UNCHANGED <<session, href, api_client, api_i, api_session, api_calls,
                   api_waits, api_seen, api_headers, api_status, api_signedOut,
                   api_msg>>
    /\ AxiosFrame

\* the 2000 ms timer fires: the document is replaced by /login, which drops
\* every request and timer of the old document
RedirectTimerFires ==
    /\ redirectTimers > 0
    /\ href' = "/login"
    /\ redirectTimers' = 0
    /\ api_pc' = "idle"
    /\ api_client' = "lib"
    /\ api_i' = 0
    /\ api_session' = NoSession
    /\ api_calls' = 0
    /\ api_waits' = 0
    /\ api_seen' = <<>>
    /\ api_headers' = NoHeader
    /\ api_status' = 0
    /\ api_result' = "none"
    /\ api_error' = 0
    /\ api_signedOut' = FALSE
    /\ api_msg' = "none"
    /\ UNCHANGED session
    /\ AxiosFrame

\* after a successful login the Login page navigates back to '/'
LoginNavigatesHome ==
    /\ href = "/login"
    /\ HasAccessToken(session)
    /\ href' = "/"
    /\ UNCHANGED <<session, redirectTimers, apiVars>>
    /\ AxiosFrame

NextAxios ==
    \/ \E t \in Tokens : SessionEstablished(t)
    \/ SessionExpires
    \/ \E c \in Clients : StartRequest(c)
    \/ ReqGetSession
    \/ ReqWait
    \/ ReqReturnConfig
    \/ \E st \in Statuses : ServerRespond(st)
    \/ Resp401GetSession
    \/ Resp401SignOut
    \/ Resp401Reject
    \/ RedirectTimerFires
    \/ LoginNavigatesHome

SpecAxios == InitAxios /\ [][NextAxios]_vars

\* The event loop runs every continuation whose promise or timer is due: the
\* steps of the request interceptor are never postponed forever.
FairSpecAxios ==
    /\ SpecAxios
    /\ WF_vars(ReqGetSession)
    /\ WF_vars(ReqWait)
    /\ WF_vars(ReqReturnConfig)

(***************************************************************************)
(* C1: whenever ANY REST call of the frontend receives a 401, the session  *)
(* is signed out, the redirect to /login is scheduled (or done), and the   *)
(* call rejects with the original error.                                   *)
(***************************************************************************)
C1_Every401SignsOutAndRedirects ==
    (api_result = "rejected" /\ api_status = 401) =>
        /\ api_signedOut
        /\ api_error = 401
        /\ (redirectTimers > 0 \/ href = "/login")

(***************************************************************************)
(* C2: a request that leaves the shared client carries Authorization:      *)
(* Bearer <token> exactly when the session lookup ended on a getSession    *)
(* result holding an access_token (and then that token); otherwise it is   *)
(* sent without the header; the interceptor itself never rejects it.       *)
(***************************************************************************)
C2_TokenAttachedOrSentBare ==
    /\ (HasInterceptors(api_client) /\ api_pc \in {"sent", "resp401", "signOut", "signedOut", "done"}) =>
          /\ api_seen # <<>>
          /\ IF HasAccessToken(api_seen[Len(api_seen)])
                THEN api_headers = Bearer(api_seen[Len(api_seen)])
                ELSE api_headers = NoHeader
    /\ (api_pc \in {"getSession", "wait", "attach"}) =>
          (api_result = "none" /\ api_headers = NoHeader)
    /\ (api_result = "rejected") => (api_status # 0)

\* a token found on the second attempt is attached to the request sent
C2_Witness ==
    /\ api_pc = "sent"
    /\ api_calls = 2
    /\ HasAccessToken(api_seen[2])
    /\ api_headers = Bearer(api_seen[2])

(***************************************************************************)
(* C3: the session lookup of the request interceptor makes at most 3       *)
(* getSession calls, stops at the first one that returns an access_token,  *)
(* waits only between attempts (at most 2 waits, none after the last       *)
(* attempt), and always ends by returning the config.                      *)
(***************************************************************************)
InLookup == api_pc \in {"getSession", "wait", "attach"}

C3_LookupBounds ==
    /\ api_calls <= 3
    /\ api_waits <= 2
    /\ api_calls = Len(api_seen)
    /\ \A k \in 1..(Len(api_seen) - 1) : ~HasAccessToken(api_seen[k])
    /\ (api_pc = "getSession") => (api_waits = api_calls)
    /\ (api_pc = "wait") => (api_waits = api_calls - 1)
    /\ (HasInterceptors(api_client) /\ api_pc \notin {"idle", "getSession", "wait"}) =>
          /\ api_calls >= 1
          /\ api_waits = api_calls - 1
          /\ (HasAccessToken(api_seen[Len(api_seen)]) \/ api_calls = 3)

C3_LookupTerminates ==
    /\ []C3_LookupBounds
    /\ (InLookup ~> (api_pc = "sent" \/ api_pc = "idle"))

\* three attempts without a token, two waits, and the config is returned
C3_Witness ==
    /\ api_pc = "sent"
    /\ api_calls = 3
    /\ api_waits = 2
    /\ api_headers = NoHeader

(***************************************************************************)
(* Login page: Login.onFinish with AuthContext.signIn.                     *)
(***************************************************************************)
InitLogin ==
    /\ session = NoSession
    /\ href = "/login"
    /\ redirectTimers = 0
    /\ password \in Passwords
    /\ ApiIdle
    /\ LoginIdle
    /\ CPIdle
    /\ RPUnmounted
    /\ AuthUnmounted
    /\ HomeUnmounted
    /\ NoOrder
    /\ MarginIdle
    /\ EmptyWarehouse
    /\ ProfitLossUnmounted

\* what supabase.auth.signInWithPassword may answer for the entered e-mail
\* and password: an error, data without a session, or data.session with a
\* fresh token
SignInOutcomes(email, entered, actual) ==
    {<<"error", NoSession>>}
      \cup (IF email = AccountEmail /\ entered = actual
              THEN {<<"data", s>> : s \in SessionValues}
              ELSE {})

\* mutant: the session read back after the wait is not tested
VerifySessionReady_Unchecked(verifySession) == TRUE

\* if (verifySession?.access_token)
VerifySessionReady(verifySession) == HasAccessToken(verifySession)

\* the form is submitted: setLoading(true), signIn is called
LoginSubmit(email, pw) ==
    /\ login_pc \in {"idle", "done"}
    /\ login_loading' = TRUE
    /\ login_values' = <<email, pw>>
    /\ login_data' = NoSession
    /\ login_verify' = NoSession
    /\ login_msg' = "none"
    /\ login_nav' = "none"
    /\ login_pc' = "signIn"
    /\ UNCHANGED <<session, password>>
    /\ LoginFrame

\* const data = await signIn(...): signIn throws the error it gets; a returned
\* session is persisted by Supabase now or a little later
LoginSignIn ==
    /\ login_pc = "signIn"
    /\ \E o \in SignInOutcomes(login_values[1], login_values[2], password) :
         IF o[1] = "error"
           THEN \* catch: message.error; finally: setLoading(false)
                /\ login_msg' = "sign_in_failed"
                /\ login_loading' = FALSE
                /\ login_pc' = "done"
                /\ UNCHANGED <<login_data, session>>
           ELSE /\ login_data' = o[2]
                /\ IF HasAccessToken(o[2])
                     THEN /\ login_pc' = "wait"
                          /\ session' \in {session, o[2]}
                          /\ UNCHANGED <<login_msg, login_loading>>
                     ELSE /\ login_msg' = "no_session"
                          /\ login_loading' = FALSE
                          /\ login_pc' = "done"
                          /\ UNCHANGED session
    /\ UNCHANGED <<password, login_values, login_verify, login_nav>>
    /\ LoginFrame

\* await new Promise(resolve => setTimeout(resolve, 100))
LoginWait ==
    /\ login_pc = "wait"
    /\ login_pc' = "verify"
    /\ UNCHANGED <<session, password, login_loading, login_values, login_data,
                   login_verify, login_msg, login_nav>>
    /\ LoginFrame

\* const { data: { session: verifySession } } = await getSession(); ...
LoginVerify ==
    /\ login_pc = "verify"
    /\ login_verify' = session
    /\ IF VerifySessionReady(session)
         THEN /\ login_msg' = "success"
              /\ login_nav' = "/"
         ELSE /\ login_msg' = "session_not_ready"
              /\ UNCHANGED login_nav
    /\ login_loading' = FALSE
    /\ login_pc' = "done"
    /\ UNCHANGED <<session, password, login_values, login_data>>
    /\ LoginFrame

NextLogin ==
    \/ \E t \in Tokens : SessionEstablished(t)
    \/ SessionExpires
    \/ \E email \in Emails, pw \in Passwords : LoginSubmit(email, pw)
    \/ LoginSignIn
    \/ LoginWait
    \/ LoginVerify

SpecLogin == InitLogin /\ [][NextLogin]_vars

(***************************************************************************)
(* C4: Login.onFinish navigates to '/' only if signIn returned a session   *)
(* with an access_token and the getSession after the 100 ms wait returned  *)
(* one too; otherwise nothing is navigated and an error message is shown;  *)
(* loading is false whenever onFinish has finished.                        *)
(***************************************************************************)
C4_LoginNavigatesOnlyVerified ==
    /\ (login_nav # "none") =>
          /\ login_nav = "/"
          /\ HasAccessToken(login_data)
          /\ HasAccessToken(login_verify)
          /\ login_msg = "success"
    /\ (login_pc = "done") =>
          /\ login_loading = FALSE
          /\ (login_nav = "none") =>
                login_msg \in {"sign_in_failed", "no_session", "session_not_ready"}
          /\ (HasAccessToken(login_data) /\ HasAccessToken(login_verify)) =>
                login_nav = "/"
    /\ (login_pc \in {"signIn", "wait", "verify"}) => (login_nav = "none")

\* signIn returned a session, yet the read-back found none: no navigation
C4_Witness ==
    /\ login_pc = "done"
    /\ HasAccessToken(login_data)
    /\ ~HasAccessToken(login_verify)
    /\ login_nav = "none"
    /\ login_msg = "session_not_ready"

(***************************************************************************)
(* Change-password page: ChangePassword.onFinish with updatePassword.      *)
(***************************************************************************)
InitChangePassword ==
    /\ session \in Tokens
    /\ href = "/"
    /\ redirectTimers = 0
    /\ password \in Passwords
    /\ ApiIdle
    /\ LoginIdle
    /\ CPIdle
    /\ RPUnmounted
    /\ AuthUnmounted
    /\ HomeUnmounted
    /\ NoOrder
    /\ MarginIdle
    /\ EmptyWarehouse
    /\ ProfitLossUnmounted

\* mutant: the early return after signInError is missing
AfterCurrentPasswordCheck_NoReturn(signInError) == "update"

\* if (signInError) { ...; return; }  await updatePassword(values.newPassword)
AfterCurrentPasswordCheck(signInError) == IF signInError THEN "done" ELSE "update"

\* the auth state changes to signed out while the page is mounted
CPUserCleared ==
    /\ cp_user = "user"
    /\ cp_user' = "null"
    /\ session' = NoSession
    /\ UNCHANGED <<password, cp_pc, cp_loading, cp_values, cp_signInError,
                   cp_signedIn, cp_updateCalled, cp_msg, cp_formFilled,
                   cp_passwordBefore>>
    /\ CPFrame

\* the user signs in again: the context holds a user
CPUserRestored(t) ==
    /\ cp_user = "null"
    /\ cp_user' = "user"
    /\ session' = t
    /\ UNCHANGED <<password, cp_pc, cp_loading, cp_values, cp_signInError,
                   cp_signedIn, cp_updateCalled, cp_msg, cp_formFilled,
                   cp_passwordBefore>>
    /\ CPFrame

\* the validated form is submitted: setLoading(true)
CPSubmit(cur, new) ==
    /\ cp_pc \in {"idle", "done"}
    /\ cp_loading' = TRUE
    /\ cp_values' = <<cur, new>>
    /\ cp_formFilled' = TRUE
    /\ cp_signInError' = FALSE
    /\ cp_signedIn' = FALSE
    /\ cp_updateCalled' = FALSE
    /\ cp_msg' = "none"
    /\ cp_passwordBefore' = password
    /\ cp_pc' = "signIn"
    /\ UNCHANGED <<session, password, cp_user>>
    /\ CPFrame

\* const { error: signInError } = await signInWithPassword({email: user.email,
\* password: values.currentPassword}); reading user.email throws when user is
\* null; signInWithPassword may also throw instead of returning an error
CPSignIn ==
    /\ cp_pc = "signIn"
    /\ \/ \* thrown: catch shows the message, finally clears loading
          /\ cp_msg' = "change_failed"
          /\ cp_loading' = FALSE
          /\ cp_pc' = "done"
          /\ UNCHANGED <<session, cp_signInError, cp_signedIn>>
       \/ /\ cp_user = "user"
          /\ \E o \in SignInOutcomes(AccountEmail, cp_values[1], password) :
               IF o[1] = "error"
                 THEN /\ cp_signInError' = TRUE
                      /\ cp_msg' = "current_password_wrong"
                      /\ cp_loading' = FALSE
                      /\ cp_pc' = AfterCurrentPasswordCheck(TRUE)
                      /\ UNCHANGED <<session, cp_signedIn>>
                 ELSE /\ cp_signedIn' = TRUE
                      /\ session' = o[2]
                      /\ cp_pc' = AfterCurrentPasswordCheck(FALSE)
                      /\ UNCHANGED <<cp_signInError, cp_msg, cp_loading>>
    /\ UNCHANGED <<password, cp_user, cp_values, cp_updateCalled,
                   cp_formFilled, cp_passwordBefore>>
    /\ CPFrame

\* await updatePassword(values.newPassword): supabase.auth.updateUser stores
\* the new password, or returns an error that updatePassword throws
CPUpdate ==
    /\ cp_pc = "update"
    /\ cp_updateCalled' = TRUE
    /\ \/ /\ HasAccessToken(session)
          /\ password' = cp_values[2]
          /\ cp_msg' = "changed"
          /\ cp_formFilled' = FALSE
       \/ /\ cp_msg' = "change_failed"
          /\ UNCHANGED <<password, cp_formFilled>>
    /\ cp_loading' = FALSE
    /\ cp_pc' = "done"
    /\ UNCHANGED <<session, cp_user, cp_values, cp_signInError, cp_signedIn,
                   cp_passwordBefore>>
    /\ CPFrame

NextChangePassword ==
    \/ CPUserCleared
    \/ \E t \in Tokens : CPUserRestored(t)
    \/ \E cur \in Passwords, new \in Passwords : CPSubmit(cur, new)
    \/ CPSignIn
    \/ CPUpdate

SpecChangePassword == InitChangePassword /\ [][NextChangePassword]_vars

(***************************************************************************)
(* C5: updatePassword(newPassword) is called only after signInWithPassword *)
(* with the entered current password returned no error; when the current   *)
(* password is wrong the account password is not changed, the form is not  *)
(* reset and loading is false afterwards.                                  *)
(***************************************************************************)
C5_UpdateOnlyAfterCurrentPasswordOk ==
    /\ cp_updateCalled => (cp_signedIn /\ ~cp_signInError)
    /\ (cp_pc = "update") => (cp_signedIn /\ ~cp_signInError)
    /\ (cp_pc \in {"update", "done"} /\ cp_values[1] # cp_passwordBefore) =>
          /\ ~cp_updateCalled
          /\ password = cp_passwordBefore
          /\ cp_formFilled
          /\ cp_pc = "done"
          /\ ~cp_loading
    /\ (cp_pc = "done") => ~cp_loading

\* a wrong current password was entered and rejected
C5_Witness ==
    /\ cp_pc = "done"
    /\ cp_values[1] # cp_passwordBefore
    /\ cp_signInError
    /\ cp_msg = "current_password_wrong"
    /\ cp_formFilled

(***************************************************************************)
(* Reset-password page: the check() of the ResetPassword effect.           *)
(***************************************************************************)
\* mutant: only the query string is consulted
ResetType_QueryOnly(query, hash) == query

\* searchParams.get('type') || (hash && new URLSearchParams(hash.slice(1)).get('type'))
ResetType(query, hash) == IF query # "none" THEN query ELSE hash

\* for (let i = 0; i < 5; i++)
RPLoopContinues(i) == i < 5

\* if (i < 4) await new Promise((r) => setTimeout(r, 150))
RPWaitBeforeRetry(i) == i < 4

\* the page is loaded from a link: useState(false) twice, the effect starts check()
InitResetPassword ==
    /\ session \in SessionValues
    /\ href = "/reset-password"
    /\ redirectTimers = 0
    /\ password = 1
    /\ ApiIdle
    /\ LoginIdle
    /\ CPIdle
    /\ AuthUnmounted
    /\ HomeUnmounted
    /\ NoOrder
    /\ MarginIdle
    /\ EmptyWarehouse
    /\ ProfitLossUnmounted
    /\ rp_query \in TypeValues
    /\ rp_hash \in TypeValues
    /\ rp_pc = IF RPLoopContinues(0) THEN "poll" ELSE "markInvalid"
    /\ rp_i = 0
    /\ rp_ready = FALSE
    /\ rp_invalid = FALSE
    /\ rp_polls = 0
    /\ rp_waits = 0
    /\ rp_sawSession = FALSE

\* const { data: { session } } = await getSession();
\* if (type === 'recovery' || session) { setReady(true); return; }
RPPoll ==
    /\ rp_pc = "poll"
    /\ rp_polls' = rp_polls + 1
    /\ rp_sawSession' = (rp_sawSession \/ session # NoSession)
    /\ IF ResetType(rp_query, rp_hash) = "recovery" \/ session # NoSession
         THEN /\ rp_ready' = TRUE
              /\ rp_pc' = "finished"
              /\ rp_i' = rp_i
         ELSE /\ rp_ready' = rp_ready
              /\ IF RPWaitBeforeRetry(rp_i)
                   THEN /\ rp_pc' = "wait"
                        /\ rp_i' = rp_i
                   ELSE /\ rp_i' = rp_i + 1
                        /\ rp_pc' = IF RPLoopContinues(rp_i + 1)
                                      THEN "poll" ELSE "markInvalid"
    /\ UNCHANGED <<session, rp_query, rp_hash, rp_invalid, rp_waits>>
    /\ RPFrame

\* the 150 ms timer fires, then i++
RPWait ==
    /\ rp_pc = "wait"
    /\ rp_waits' = rp_waits + 1
    /\ rp_i' = rp_i + 1
    /\ rp_pc' = IF RPLoopContinues(rp_i + 1) THEN "poll" ELSE "markInvalid"
    /\ UNCHANGED <<session, rp_query, rp_hash, rp_ready, rp_invalid, rp_polls,
                   rp_sawSession>>
    /\ RPFrame

\* setInvalid(true) after the loop
RPMarkInvalid ==
    /\ rp_pc = "markInvalid"
    /\ rp_invalid' = TRUE
    /\ rp_pc' = "finished"
    /\ UNCHANGED <<session, rp_query, rp_hash, rp_i, rp_ready, rp_polls,
                   rp_waits, rp_sawSession>>
    /\ RPFrame

NextResetPassword ==
    \/ \E t \in Tokens : SessionEstablished(t)
    \/ SessionExpires
    \/ RPPoll
    \/ RPWait
    \/ RPMarkInvalid

SpecResetPassword == InitResetPassword /\ [][NextResetPassword]_vars

\* awaited getSession promises resolve and the 150 ms timers fire
FairSpecResetPassword ==
    /\ SpecResetPassword
    /\ WF_vars(RPPoll)
    /\ WF_vars(RPWait)
    /\ WF_vars(RPMarkInvalid)

(***************************************************************************)
(* C6 as claimed: once the check has finished, ready holds if and only if  *)
(* the URL carries type=recovery in the query string or in the hash, or a  *)
(* session was observed within the (at most 5) polls; otherwise invalid is *)
(* set after the 5th poll; ready and invalid are never both true.          *)
(***************************************************************************)
C6_ReadyIffRecoveryAnywhereOrSession ==
    /\ rp_polls <= 5
    /\ ~(rp_ready /\ rp_invalid)
    /\ (rp_pc = "finished") =>
          /\ rp_ready <=> (rp_query = "recovery" \/ rp_hash = "recovery" \/ rp_sawSession)
          /\ rp_invalid <=> ~rp_ready
          /\ rp_invalid => rp_polls = 5

(***************************************************************************)
(* C6 amended: ready holds if and only if the effective type is recovery   *)
(* (the query string's type when it has a non-empty one, the hash's        *)
(* otherwise) or a session was observed within at most 5 getSession polls  *)
(* with one 150 ms wait between consecutive polls; otherwise invalid is    *)
(* set after the 5th poll; the check always terminates; ready and invalid  *)
(* are never both true.                                                    *)
(***************************************************************************)
C6_CheckBounds ==
    /\ rp_polls <= 5
    /\ rp_waits <= 4
    /\ ~(rp_ready /\ rp_invalid)
    /\ (rp_pc = "poll") => (rp_waits = rp_polls)
    /\ (rp_pc \in {"wait", "markInvalid", "finished"}) => (rp_waits = rp_polls - 1)
    /\ (rp_pc # "finished") => (~rp_ready /\ ~rp_invalid)
    /\ (rp_pc = "finished") =>
          /\ rp_ready <=> \/ rp_query = "recovery"
                          \/ (rp_query = "none" /\ rp_hash = "recovery")
                          \/ rp_sawSession
          /\ rp_invalid <=> ~rp_ready
          /\ rp_invalid => rp_polls = 5

C6_ReadyIffEffectiveRecoveryOrSession ==
    /\ []C6_CheckBounds
    /\ <>(rp_pc = "finished")

\* a recovery type in the hash is shadowed by another type in the query
C6_Witness ==
    /\ rp_pc = "finished"
    /\ rp_query = "signup"
    /\ rp_hash = "recovery"
    /\ rp_invalid
    /\ ~rp_ready
    /\ rp_polls = 5

(***************************************************************************)
(* AuthProvider: the effect that subscribes to onAuthStateChange.  A path  *)
(* is a sequence of chunks whose concatenation is location.pathname, the   *)
(* public prefixes being chunks of their own, so that startsWith is the    *)
(* prefix order on sequences.                                              *)
(***************************************************************************)
LoginPath == <<"/login">>
PublicPaths == {<<"/login">>, <<"/forgot-password">>, <<"/reset-password">>}
Paths == PublicPaths \cup {<<"/">>, <<"/charts">>, <<"/login", "-help">>}

\* location.pathname.startsWith(p)
StartsWith(path, p) == Len(path) >= Len(p) /\ SubSeq(path, 1, Len(p)) = p

\* publicPaths.some((p) => location.pathname.startsWith(p))
IsPublicPath(path) == \E p \in PublicPaths : StartsWith(path, p)

\* session?.user ?? null
UserOf(s) == IF s = NoSession THEN "null" ELSE "user"

\* mutant: the effect returns no cleanup, the old subscription stays
EffectRerun_NoCleanup(subs, path) == Append(subs, IsPublicPath(path))

\* the effect runs again for a new pathname: the cleanup unsubscribes the
\* previous subscription, then a new one closes over the new isPublic
EffectRerun(subs, path) == <<IsPublicPath(path)>>

\* AuthProvider is mounted at some path; its effect has run once
InitAuthProvider ==
    /\ session \in SessionValues
    /\ href = "/"
    /\ redirectTimers = 0
    /\ password = 1
    /\ ApiIdle
    /\ LoginIdle
    /\ CPIdle
    /\ RPUnmounted
    /\ HomeUnmounted
    /\ NoOrder
    /\ MarginIdle
    /\ EmptyWarehouse
    /\ ProfitLossUnmounted
    /\ pathname \in Paths
    /\ auth_user = "null"
    /\ auth_loading = TRUE
    /\ auth_subs = EffectRerun(<<>>, pathname)
    /\ auth_pending = TRUE
    /\ auth_tick = 0
    /\ auth_last = <<NoSession, <<>>>>

\* Supabase delivers an auth event with session s to every active callback:
\* setUser(session?.user ?? null); if (!session && !isPublic) navigate('/login');
\* a changed pathname re-runs the effect
AuthStateChange(s) ==
    LET toLogin == s = NoSession /\ \E k \in 1..Len(auth_subs) : ~auth_subs[k]
        newPath == IF toLogin THEN LoginPath ELSE pathname
    IN  /\ session' = s
        /\ auth_user' = IF Len(auth_subs) > 0 THEN UserOf(s) ELSE auth_user
        /\ pathname' = newPath
        /\ auth_subs' = IF newPath # pathname
                          THEN EffectRerun(auth_subs, newPath) ELSE auth_subs
        /\ auth_pending' = (auth_pending \/ newPath # pathname)
        /\ auth_tick' = 1 - auth_tick
        /\ auth_last' = <<s, pathname>>
        /\ UNCHANGED auth_loading
        /\ AuthFrame

\* signOut of the context: supabase.auth.signOut() emits the signed-out
\* event, then navigate('/login')
AuthSignOut ==
    /\ session # NoSession
    /\ AuthStateChange(NoSession)
    /\ pathname' = LoginPath

\* the router moves to another path (a link, navigate(), the address bar)
Navigate(path) ==
    /\ path # pathname
    /\ pathname' = path
    /\ auth_subs' = EffectRerun(auth_subs, path)
    /\ auth_pending' = TRUE
    /\ UNCHANGED <<session, auth_user, auth_loading, auth_tick, auth_last>>
    /\ AuthFrame

\* supabase.auth.getSession().then(({data: {session}}) => { setUser; setLoading })
AuthGetSessionResolved ==
    /\ auth_pending
    /\ auth_user' = UserOf(session)
    /\ auth_loading' = FALSE
    /\ auth_pending' \in BOOLEAN
    /\ UNCHANGED <<session, pathname, auth_subs, auth_tick, auth_last>>
    /\ AuthFrame

NextAuthProvider ==
    \/ \E s \in SessionValues : AuthStateChange(s)
    \/ AuthSignOut
    \/ \E path \in Paths : Navigate(path)
    \/ AuthGetSessionResolved

SpecAuthProvider == InitAuthProvider /\ [][NextAuthProvider]_vars

(***************************************************************************)
(* C7: an auth event without a session sets user to null and, when the     *)
(* current path starts with none of /login, /forgot-password and           *)
(* /reset-password, navigates to /login; on those public paths the path    *)
(* stays; at most one auth-state subscription is active at any time.       *)
(***************************************************************************)
C7_OneSubscription == Len(auth_subs) <= 1

C7_NoSessionEventStep ==
    (auth_tick' # auth_tick /\ session' = NoSession) =>
        /\ auth_user' = "null"
        /\ IF    \/ StartsWith(pathname, <<"/login">>)
                 \/ StartsWith(pathname, <<"/forgot-password">>)
                 \/ StartsWith(pathname, <<"/reset-password">>)
             THEN pathname' = pathname
             ELSE pathname' = <<"/login">>

PeriodLess(a, b) == a[1] < b[1] \/ (a[1] = b[1] /\ a[2] < b[2])
Latest(ps) == CHOOSE p \in ps : \A q \in ps : q = p \/ PeriodLess(q, p)

\* mutant: the effect also depends on the dropdowns
FilesEffectTriggered_AllDeps(oldPeriod, newPeriod, oldSel, newSel) ==
    oldPeriod # newPeriod \/ oldSel # newSel

\* useEffect(..., [period]): the effect runs again when period has changed
FilesEffectTriggered(oldPeriod, newPeriod, oldSel, newSel) ==
    oldPeriod # newPeriod

\* the body of the effect: if (!period) return; if (!y || !m) return;
\* setLoading(true); fetchImportFiles(y, m)
EffectFetches(oldPeriod, newPeriod, oldSel, newSel) ==
    IF /\ FilesEffectTriggered(oldPeriod, newPeriod, oldSel, newSel)
       /\ newPeriod # NoPeriod
       /\ newPeriod[1] # 0
       /\ newPeriod[2] # 0
      THEN <<newPeriod>>
      ELSE <<>>

\* setYear / setMonth / setPeriod, the render and the effects that follow it
HomeSetSelection(y, m, p) ==
    LET f == EffectFetches(home_period, p, <<home_year, home_month>>, <<y, m>>)
    IN  /\ home_inflight + Len(f) <= MaxInflight
        /\ home_year' = y
        /\ home_month' = m
        /\ home_period' = p
        /\ home_inflight' = home_inflight + Len(f)
        /\ home_lastFetch' = IF f = <<>> THEN home_lastFetch ELSE f[1]
        /\ home_loading' = (home_loading \/ f # <<>>)

InitHome ==
    /\ session = NoSession
    /\ href = "/"
    /\ redirectTimers = 0
    /\ password = 1
    /\ ApiIdle
    /\ LoginIdle
    /\ CPIdle
    /\ RPUnmounted
    /\ AuthUnmounted
    /\ NoOrder
    /\ MarginIdle
    /\ EmptyWarehouse
    /\ ProfitLossUnmounted
    /\ home_year \in YearOptions
    /\ home_month \in MonthOptions
    /\ home_periods = {}
    /\ home_period = NoPeriod
    /\ home_fileStatus = "null"
    /\ home_loading = FALSE
    /\ home_inflight = 0
    /\ home_lastFetch = NoPeriod
    /\ home_mount = "pending"
    /\ home_uploading = FALSE
    /\ home_selectedFiles = [k \in FileKeys |-> FALSE]
    /\ home_uploadKey = 0
    /\ home_uploadValidation = NullValidation
    /\ home_up = "idle"
    /\ home_etl = "idle"
    /\ home_del = "idle"
    /\ home_msg = "none"

\* fetchImportPeriods().then(...) of the mount effect
HomePeriodsLoaded(ps) ==
    /\ home_mount = "pending"
    /\ home_mount' = "done"
    /\ IF ps = {}
         THEN /\ home_periods' = {}
              /\ home_fileStatus' = "null"
              /\ HomeSetSelection(home_year, home_month, NoPeriod)
         ELSE /\ home_periods' = ps
              /\ home_fileStatus' = home_fileStatus
              /\ HomeSetSelection(Latest(ps)[1], Latest(ps)[2],
                                  IF home_period # NoPeriod
                                    THEN home_period ELSE Latest(ps))
    /\ UNCHANGED <<home_uploading, home_selectedFiles, home_uploadKey,
                   home_uploadValidation, home_up, home_etl, home_del>>
    /\ home_msg' = "none"
    /\ HomeFrame

\* fetchImportPeriods().catch(...): Modal.error or message.error
HomePeriodsFailed ==
    /\ home_mount = "pending"
    /\ home_mount' = "failed"
    /\ UNCHANGED <<home_year, home_month, home_periods, home_period,
                   home_fileStatus, home_loading, home_inflight, home_lastFetch,
                   home_uploading, home_selectedFiles, home_uploadKey,
                   home_uploadValidation, home_up, home_etl, home_del>>
    /\ home_msg' = "none"
    /\ HomeFrame

\* a fetchImportFiles call of the effect settles:
\* .then(setFileStatus) / .catch(message) / .finally(() => setLoading(false))
HomeFetchSettled(ok) ==
    /\ home_inflight > 0
    /\ home_inflight' = home_inflight - 1
    /\ home_lastFetch' = home_lastFetch
    /\ home_fileStatus' = IF ok THEN "loaded" ELSE home_fileStatus
    /\ home_loading' = FALSE
    /\ UNCHANGED <<home_year, home_month, home_periods, home_period, home_mount,
                   home_uploading, home_selectedFiles, home_uploadKey,
                   home_uploadValidation, home_up, home_etl, home_del>>
    /\ home_msg' = "none"
    /\ HomeFrame

\* <Select value={year} onChange={setYear} />
HomeSetYear(y) ==
    /\ y # home_year
    /\ HomeSetSelection(y, home_month, home_period)
    /\ UNCHANGED <<home_periods, home_fileStatus, home_mount, home_uploading,
                   home_selectedFiles, home_uploadKey, home_uploadValidation,
                   home_up, home_etl, home_del>>
    /\ home_msg' = "none"
    /\ HomeFrame

\* <Select value={month} onChange={setMonth} />
HomeSetMonth(m) ==
    /\ m # home_month
    /\ HomeSetSelection(home_year, m, home_period)
    /\ UNCHANGED <<home_periods, home_fileStatus, home_mount, home_uploading,
                   home_selectedFiles, home_uploadKey, home_uploadValidation,
                   home_up, home_etl, home_del>>
    /\ home_msg' = "none"
    /\ HomeFrame

\* handleSelectPeriod(p): setPeriod(p); setYear(y); setMonth(m)
HomeSelectPeriod(p) ==
    /\ p \in home_periods
    /\ HomeSetSelection(p[1], p[2], p)
    /\ UNCHANGED <<home_periods, home_fileStatus, home_mount, home_uploading,
                   home_selectedFiles, home_uploadKey, home_uploadValidation,
                   home_up, home_etl, home_del>>
    /\ home_msg' = "none"
    /\ HomeFrame

\* handleCreatePeriod: createImportPeriod(year, month); res.periods (empty:
\* return), res.period (absent: the last of the sorted list); a rejection
\* only shows the error message
HomeCreatePeriod(outcome) ==
    /\ outcome \in {"period", "latest"}
    /\ LET ps == home_periods \cup {<<home_year, home_month>>}
           newly == IF outcome = "period"
                      THEN <<home_year, home_month>> ELSE Latest(ps)
       IN  /\ home_periods' = ps
           /\ HomeSetSelection(newly[1], newly[2], newly)
    /\ UNCHANGED <<home_fileStatus, home_mount, home_uploading,
                   home_selectedFiles, home_uploadKey, home_uploadValidation,
                   home_up, home_etl, home_del>>
    /\ home_msg' = "none"
    /\ HomeFrame

\* onFileSelect(key, file): a file is chosen for key, or removed
HomeFileSelect(key, chosen) ==
    /\ home_period # NoPeriod
    /\ home_selectedFiles[key] # chosen
    /\ home_selectedFiles' = [home_selectedFiles EXCEPT ![key] = chosen]
    /\ UNCHANGED <<home_year, home_month, home_periods, home_period,
                   home_fileStatus, home_loading, home_inflight, home_lastFetch,
                   home_mount,
                   home_uploading, home_uploadKey, home_uploadValidation,
                   home_up, home_etl, home_del>>
    /\ home_msg' = "none"
    /\ HomeFrame

\* Object.entries(selectedFiles).filter(([, v]) => v && v instanceof File)
ToSend(selectedFiles) == {k \in FileKeys : selectedFiles[k]}

\* onUpload up to the await: nothing selected -> warning and return;
\* otherwise setUploading(true), setUploadValidation(null), the request is sent
HomeUpload ==
    /\ home_period # NoPeriod
    /\ home_up = "idle"
    /\ home_uploadKey < MaxUploadKey
    /\ IF ToSend(home_selectedFiles) = {}
         THEN /\ home_msg' = "choose_file"
              /\ UNCHANGED <<home_uploading, home_uploadValidation, home_up>>
         ELSE /\ home_uploading' = TRUE
              /\ home_uploadValidation' = NullValidation
              /\ home_up' = "request"
              /\ home_msg' = "none"
    /\ UNCHANGED <<home_year, home_month, home_periods, home_period,
                   home_fileStatus, home_loading, home_inflight, home_lastFetch,
                   home_mount,
                   home_selectedFiles, home_uploadKey, home_etl, home_del>>
    /\ HomeFrame

\* Object.values(validation).some((v) => !v.ok && v.errors?.length > 0)
HasErrors(validation) == \E k \in FileKeys : validation[k] = "bad_errors"

\* onUpload after the await: r.validation, r.saved
HomeUploadResponse(validation, savedCount) ==
    /\ home_up = "request"
    /\ IF HasErrors(validation)
         THEN /\ home_uploadValidation' = validation
              /\ home_msg' = "format_errors"
              /\ home_uploading' = FALSE
              /\ home_up' = "idle"
              /\ UNCHANGED <<home_selectedFiles, home_uploadKey>>
         ELSE IF savedCount > 0
           THEN /\ home_msg' = "saved"
                /\ home_selectedFiles' = [k \in FileKeys |-> FALSE]
                /\ home_uploadKey' = home_uploadKey + 1
                /\ home_up' = "refetch"
                /\ UNCHANGED <<home_uploadValidation, home_uploading>>
           ELSE /\ home_msg' = "none_saved"
                /\ home_uploading' = FALSE
                /\ home_up' = "idle"
                /\ UNCHANGED <<home_selectedFiles, home_uploadKey,
                               home_uploadValidation>>
    /\ UNCHANGED <<home_year, home_month, home_periods, home_period,
                   home_fileStatus, home_loading, home_inflight, home_lastFetch,
                   home_mount,
                   home_etl, home_del>>
    /\ HomeFrame

\* the upload request, or the fetchImportFiles awaited after it, rejects:
\* catch shows the error, finally setUploading(false)
HomeUploadFailed ==
    /\ home_up \in {"request", "refetch"}
    /\ home_msg' = "upload_failed"
    /\ home_uploading' = FALSE
    /\ home_up' = "idle"
    /\ UNCHANGED <<home_year, home_month, home_periods, home_period,
                   home_fileStatus, home_loading, home_inflight, home_lastFetch,
                   home_mount,
                   home_selectedFiles, home_uploadKey, home_uploadValidation,
                   home_etl, home_del>>
    /\ HomeFrame

\* const st = await fetchImportFiles(periodYear, periodMonth); setFileStatus(st)
HomeUploadRefetched ==
    /\ home_up = "refetch"
    /\ home_fileStatus' = "loaded"
    /\ home_uploading' = FALSE
    /\ home_up' = "idle"
    /\ UNCHANGED <<home_year, home_month, home_periods, home_period,
                   home_loading, home_inflight, home_lastFetch,
                   home_mount,
                   home_selectedFiles, home_uploadKey, home_uploadValidation,
                   home_etl, home_del>>
    /\ home_msg' = "none"
    /\ HomeFrame

\* onRunEtl: runImportEtl(...); r.ok -> the file list is fetched again
HomeRunEtl(ok) ==
    /\ home_period # NoPeriod
    /\ home_etl = "idle"
    /\ ok
    /\ home_etl' = "refetch"
    /\ UNCHANGED <<home_year, home_month, home_periods, home_period,
                   home_fileStatus, home_loading, home_inflight, home_lastFetch,
                   home_mount,
                   home_uploading, home_selectedFiles, home_uploadKey,
                   home_uploadValidation, home_up, home_del>>
    /\ home_msg' = "none"
    /\ HomeFrame

\* const st = await fetchImportFiles(...); setFileStatus(st) (or catch)
HomeEtlRefetched(ok) ==
    /\ home_etl = "refetch"
    /\ home_etl' = "idle"
    /\ home_fileStatus' = IF ok THEN "loaded" ELSE home_fileStatus
    /\ UNCHANGED <<home_year, home_month, home_periods, home_period,
                   home_loading, home_inflight, home_lastFetch,
                   home_mount, home_uploading,
                   home_selectedFiles, home_uploadKey, home_uploadValidation,
                   home_up, home_del>>
    /\ home_msg' = "none"
    /\ HomeFrame

\* onDeleteFile: deleteImportFile(...) succeeded -> the file list is fetched again
HomeDeleteFile(ok) ==
    /\ home_period # NoPeriod
    /\ home_fileStatus = "loaded"
    /\ home_del = "idle"
    /\ ok
    /\ home_del' = "refetch"
    /\ UNCHANGED <<home_year, home_month, home_periods, home_period,
                   home_fileStatus, home_loading, home_inflight, home_lastFetch,
                   home_mount,
                   home_uploading, home_selectedFiles, home_uploadKey,
                   home_uploadValidation, home_up, home_etl>>
    /\ home_msg' = "none"
    /\ HomeFrame

\* const st = await fetchImportFiles(...); setFileStatus(st) (or catch)
HomeDeleteRefetched(ok) ==
    /\ home_del = "refetch"
    /\ home_del' = "idle"
    /\ home_fileStatus' = IF ok THEN "loaded" ELSE home_fileStatus
    /\ UNCHANGED <<home_year, home_month, home_periods, home_period,
                   home_loading, home_inflight, home_lastFetch,
                   home_mount, home_uploading,
                   home_selectedFiles, home_uploadKey, home_uploadValidation,
                   home_up, home_etl>>
    /\ home_msg' = "none"
    /\ HomeFrame

NextHome ==
    \/ \E ps \in SUBSET AllPeriods : HomePeriodsLoaded(ps)
    \/ HomePeriodsFailed
    \/ \E ok \in BOOLEAN : HomeFetchSettled(ok)
    \/ \E y \in YearOptions : HomeSetYear(y)
    \/ \E m \in MonthOptions : HomeSetMonth(m)
    \/ \E p \in AllPeriods : HomeSelectPeriod(p)
    \/ \E outcome \in {"period", "latest"} : HomeCreatePeriod(outcome)
    \/ \E key \in FileKeys, chosen \in BOOLEAN : HomeFileSelect(key, chosen)
    \/ HomeUpload
    \/ \E v \in [FileKeys -> ValidationKinds], n \in 0..Cardinality(FileKeys) :
          HomeUploadResponse(v, n)
    \/ HomeUploadFailed
    \/ HomeUploadRefetched
    \/ \E ok \in BOOLEAN : HomeRunEtl(ok)
    \/ \E ok \in BOOLEAN : HomeEtlRefetched(ok)
    \/ \E ok \in BOOLEAN : HomeDeleteFile(ok)
    \/ \E ok \in BOOLEAN : HomeDeleteRefetched(ok)

SpecHome == InitHome /\ [][NextHome]_vars

\* a step of the year or month dropdown
DropdownStep ==
    \/ \E y \in YearOptions : HomeSetYear(y)
    \/ \E m \in MonthOptions : HomeSetMonth(m)

\* the [period] effect calls fetchImportFiles in this step
EffectFetchIssued == home_inflight' > home_inflight

\* onUpload, onRunEtl or onDeleteFile calls fetchImportFiles in this step
HandlerRefetchIssued ==
    \/ home_up # "refetch" /\ home_up' = "refetch"
    \/ home_etl # "refetch" /\ home_etl' = "refetch"
    \/ home_del # "refetch" /\ home_del' = "refetch"

FetchIssued == EffectFetchIssued \/ HandlerRefetchIssued

C8_AmendedStep ==
    /\ DropdownStep => (home_period' = home_period /\ ~FetchIssued)
    /\ EffectFetchIssued =>
          /\ home_period' # home_period
          /\ home_lastFetch' = home_period'
          /\ \/ \E ps \in SUBSET AllPeriods : HomePeriodsLoaded(ps)
             \/ \E p \in AllPeriods : HomeSelectPeriod(p)
             \/ \E outcome \in {"period", "latest"} : HomeCreatePeriod(outcome)
    /\ HandlerRefetchIssued =>
          /\ home_period' = home_period
          /\ \/ \E v \in [FileKeys -> ValidationKinds],
                   n \in 1..Cardinality(FileKeys) :
                     HomeUploadResponse(v, n) /\ ~HasErrors(v)
             \/ HomeRunEtl(TRUE)
             \/ HomeDeleteFile(TRUE)

AnyNotOk(validation) ==
    \E k \in FileKeys : validation[k] \in {"bad_errors", "bad_silent"}

\* C9 as stated: an upload whose validation marks a file as not ok shows no
\* success message, keeps the selected files, does not reset the upload
\* inputs and does not re-fetch the file status; with no file selected
\* onUpload sends no request and leaves uploading false.
C9_NotOkNeverReportedSaved ==
    [][ /\ (\E v \in [FileKeys -> ValidationKinds],
               n \in 0..Cardinality(FileKeys) :
                 HomeUploadResponse(v, n) /\ AnyNotOk(v))
            => /\ home_msg' # "saved"
               /\ home_selectedFiles' = home_selectedFiles
               /\ home_uploadKey' = home_uploadKey
               /\ ~FetchIssued
        /\ (HomeUpload /\ ToSend(home_selectedFiles) = {})
            => /\ home_up' = "idle"
               /\ home_uploading' = FALSE ]_vars

(***************************************************************************)
(* Allocation of the refund and of the Etsy fee of an order to the         *)
(* products of the order, as the product-cost table documents it:          *)
(*   share = (order total) x (product revenue in order / order revenue),   *)
(*   product revenue = the sum per sku within the order.                   *)
(* Amounts are whole cents; a share is an exact fraction <<num, den>>.     *)
(* An order without revenue gets no shares (the quotient is undefined).    *)
(***************************************************************************)
Skus == {"A", "B"}

RatAdd(a, b) == <<a[1] * b[2] + b[1] * a[2], a[2] * b[2]>>
RatEq(a, b) == a[1] * b[2] = b[1] * a[2]

\* the skus sold in the order
OrderSkus(lines) == {lines[k][1] : k \in 1..Len(lines)}

RECURSIVE SumRevenue(_, _)
\* the revenue of the lines whose index is in ks
SumRevenue(lines, ks) ==
    IF ks = {} THEN 0
    ELSE LET k == CHOOSE x \in ks : TRUE
         IN  lines[k][2] + SumRevenue(lines, ks \ {k})

\* mutant: a sku's revenue is that of its first line only
ProductRevenue_FirstLine(lines, sku) ==
    lines[CHOOSE k \in 1..Len(lines) :
            /\ lines[k][1] = sku
            /\ \A j \in 1..(k - 1) : lines[j][1] # sku][2]

\* Doanh thu sản phẩm = tổng theo sku ở trong order
ProductRevenue(lines, sku) ==
    SumRevenue(lines, {k \in 1..Len(lines) : lines[k][1] = sku})

\* Tổng doanh thu order
OrderRevenue(lines) == SumRevenue(lines, 1..Len(lines))

\* (Tổng refund order) × (Doanh thu sản phẩm trong order / Tổng doanh thu order)
Share(total, productRevenue, orderRevenue) ==
    <<total * productRevenue, orderRevenue>>

\* the shares of every sku of the order
Allocate(total, lines) ==
    [sku \in OrderSkus(lines) |->
        Share(total, ProductRevenue(lines, sku), OrderRevenue(lines))]

InitAlloc ==
    /\ EnvInit
    /\ session = NoSession
    /\ password = 1
    /\ ApiIdle
    /\ LoginIdle
    /\ CPIdle
    /\ RPUnmounted
    /\ AuthUnmounted
    /\ HomeUnmounted
    /\ NoOrder
    /\ MarginIdle
    /\ EmptyWarehouse
    /\ ProfitLossUnmounted

\* a row of EtsySoldOrderItems for the order
OrderItemSold(sku, revenue) ==
    /\ Len(alloc_lines) < MaxLines
    /\ alloc_refundShare = NotAllocated
    /\ alloc_feeShare = NotAllocated
    /\ alloc_lines' = Append(alloc_lines, <<sku, revenue>>)
    /\ UNCHANGED <<alloc_refund, alloc_fee, alloc_refundShare, alloc_feeShare>>
    /\ AllocFrame

\* a row of etsy_statement with Type = Refund for the order
StatementRefund(amount) ==
    /\ alloc_refund + amount <= MaxAmount
    /\ alloc_refundShare = NotAllocated
    /\ alloc_refund' = alloc_refund + amount
    /\ UNCHANGED <<alloc_lines, alloc_fee, alloc_refundShare, alloc_feeShare>>
    /\ AllocFrame

\* a row of etsy_statement with Fees & Taxes for the order
StatementFee(amount) ==
    /\ alloc_fee + amount <= MaxAmount
    /\ alloc_feeShare = NotAllocated
    /\ alloc_fee' = alloc_fee + amount
    /\ UNCHANGED <<alloc_lines, alloc_refund, alloc_refundShare, alloc_feeShare>>
    /\ AllocFrame

\* the refund of the order is divided among its products
AllocateRefund ==
    /\ alloc_refundShare = NotAllocated
    /\ OrderRevenue(alloc_lines) # 0
    /\ alloc_refundShare' = Allocate(alloc_refund, alloc_lines)
    /\ UNCHANGED <<alloc_lines, alloc_refund, alloc_fee, alloc_feeShare>>
    /\ AllocFrame

\* the fee of the order is divided among its products
AllocateFee ==
    /\ alloc_feeShare = NotAllocated
    /\ OrderRevenue(alloc_lines) # 0
    /\ alloc_feeShare' = Allocate(alloc_fee, alloc_lines)
    /\ UNCHANGED <<alloc_lines, alloc_refund, alloc_fee, alloc_refundShare>>
    /\ AllocFrame

NextAlloc ==
    \/ \E sku \in Skus, revenue \in 0..MaxRevenue : OrderItemSold(sku, revenue)
    \/ \E amount \in 1..MaxAmount : StatementRefund(amount)
    \/ \E amount \in 1..MaxAmount : StatementFee(amount)
    \/ AllocateRefund
    \/ AllocateFee

SpecAlloc == InitAlloc /\ [][NextAlloc]_vars

RECURSIVE SumShares(_, _)
\* the exact sum of the shares of the skus in ss
SumShares(shares, ss) ==
    IF ss = {} THEN <<0, 1>>
    ELSE LET sku == CHOOSE x \in ss : TRUE
         IN  RatAdd(shares[sku], SumShares(shares, ss \ {sku}))

\* the shares cover exactly the products of the order and add up to total
SharesSumTo(shares, total) ==
    /\ DOMAIN shares = OrderSkus(alloc_lines)
    /\ \A sku \in DOMAIN shares :
          RatEq(shares[sku],
                <<total * ProductRevenue(alloc_lines, sku),
                  OrderRevenue(alloc_lines)>>)
    /\ RatEq(SumShares(shares, DOMAIN shares), <<total, 1>>)

\* C10: once the refund (resp. the fee) of an order with non-zero revenue is
\* allocated, every product of the order holds the share
\* total x (product revenue / order revenue) and the shares of the order's
\* products add up exactly to the order's total refund (resp. fee).
C10_SharesSumToOrderTotal ==
    /\ alloc_refundShare # NotAllocated =>
          SharesSumTo(alloc_refundShare, alloc_refund)
    /\ alloc_feeShare # NotAllocated =>
          SharesSumTo(alloc_feeShare, alloc_fee)

\* an order of two products, one of them sold in two lines, with unequal
\* revenues, whose refund and fee are both allocated
C10_Witness ==
    /\ alloc_refundShare # NotAllocated
    /\ alloc_feeShare # NotAllocated
    /\ alloc_refund > 0
    /\ alloc_fee > 0
    /\ alloc_refund # alloc_fee
    /\ Cardinality(OrderSkus(alloc_lines)) = 2
    /\ Len(alloc_lines) = 3
    /\ ProductRevenue(alloc_lines, "A") > ProductRevenue(alloc_lines, "B")
    /\ ProductRevenue(alloc_lines, "B") > 0


(***************************************************************************)
(* Margin of a product: the 'Margin %' column of the ProductCost table and *)
(* totalMargin of ProductDetail.  Money is in whole cents; a margin is an  *)
(* exact fraction <<num, den>>; a field the server left out is <<>>, a     *)
(* number n is <<n>>.  The table and the detail view are separate pages.   *)
(***************************************************************************)
\* amounts of refund, cogs and etsy_fee the model draws from
CostValues == {0, 1}

\* Number(x) || 0
Num(x) == IF x = <<>> THEN 0 ELSE x[1]

\* the integer nearest to n / d (d > 0), halves away from zero: toFixed
RoundHalfAway(n, d) ==
    IF n >= 0 THEN (2 * n + d) \div (2 * d)
    ELSE 0 - ((2 * (0 - n) + d) \div (2 * d))

\* margin.toFixed(1), as a number of tenths
ToFixed1(q) == RoundHalfAway(q[1] * 10, q[2])

\* formatPercent(num): (Number(num) || 0).toFixed(2), as a number of hundredths
FormatPercent(q) == RoundHalfAway(q[1] * 100, q[2])

\* record.sales > 0 ? (record.profit / record.sales) * 100 : 0
RowMargin(record) ==
    IF record.sales > 0
      THEN <<record.profit * 100, record.sales>>
      ELSE <<0, 1>>

\* the callback of variants.reduce
ReduceStep(acc, v) ==
    [sales |-> acc.sales + Num(v.sales),
     refund |-> acc.refund + Num(v.refund),
     cogs |-> acc.cogs + Num(v.cogs),
     etsy_fee |-> acc.etsy_fee + Num(v.etsy_fee),
     profit |-> acc.profit + Num(v.profit),
     marginNumerator |-> acc.marginNumerator
        + (Num(v.sales) - Num(v.refund) - Num(v.cogs) - Num(v.etsy_fee))]

\* mutant: the total margin is taken from the summed profit fields
TotalMargin_FromProfit(totals) ==
    IF totals.sales # 0
      THEN <<totals.profit * 100, totals.sales>>
      ELSE <<0, 1>>

\* totals.sales ? (totals.marginNumerator / totals.sales) * 100 : 0
TotalMargin(totals) ==
    IF totals.sales # 0
      THEN <<totals.marginNumerator * 100, totals.sales>>
      ELSE <<0, 1>>

\* rows of the product table: every field a number, sales a sum of item prices
CostRecords ==
    [sales : 0..MaxMoney, refund : CostValues, cogs : CostValues,
     etsy_fee : CostValues, profit : (0 - MaxMoney)..MaxMoney]

\* rows fetchVariants returns: sales or cogs may be missing, profit is the
\* documented difference or missing
Variants ==
    {v \in [sales : {<<>>} \cup {<<n>> : n \in 0..MaxMoney},
            refund : {<<n>> : n \in CostValues},
            cogs : {<<>>} \cup {<<n>> : n \in CostValues},
            etsy_fee : {<<n>> : n \in CostValues},
            profit : {<<>>} \cup {<<n>> : n \in (0 - 3)..MaxMoney}] :
        \/ v.profit = <<>>
        \/ v.profit[1] = Num(v.sales) - Num(v.refund) - Num(v.cogs)
                           - Num(v.etsy_fee)}

InitMargin ==
    /\ EnvInit
    /\ session = NoSession
    /\ password = 1
    /\ ApiIdle
    /\ LoginIdle
    /\ CPIdle
    /\ RPUnmounted
    /\ AuthUnmounted
    /\ HomeUnmounted
    /\ NoOrder
    /\ MarginIdle
    /\ EmptyWarehouse
    /\ ProfitLossUnmounted

\* the 'Margin %' cell of a row of the product table is rendered
ProductCostRender(record) ==
    /\ cost_record' = record
    /\ cost_margin' = RowMargin(record)
    /\ cost_text' = ToFixed1(RowMargin(record))
    /\ detail_totals' = ZeroTotals
    /\ detail_count' = 0
    /\ detail_totalMargin' = NotComputed
    /\ detail_text' = 0
    /\ MarginFrame

\* ProductDetail is opened for a product: variants is [] until they are fetched
DetailOpen ==
    /\ cost_record # NoRecord \/ detail_count > 0
    /\ cost_record' = NoRecord
    /\ cost_margin' = <<0, 1>>
    /\ cost_text' = 0
    /\ detail_totals' = ZeroTotals
    /\ detail_count' = 0
    /\ detail_totalMargin' = NotComputed
    /\ detail_text' = 0
    /\ MarginFrame

\* one call of the reduce callback, for the next variant v
DetailReduceStep(v) ==
    /\ cost_record = NoRecord
    /\ detail_totalMargin = NotComputed
    /\ detail_count < MaxVariants
    /\ detail_totals' = ReduceStep(detail_totals, v)
    /\ detail_count' = detail_count + 1
    /\ UNCHANGED <<cost_record, cost_margin, cost_text, detail_totalMargin,
                   detail_text>>
    /\ MarginFrame

\* const totalMargin = ...; the 'Margin %' row shows formatPercent(total)
DetailTotalMargin ==
    /\ cost_record = NoRecord
    /\ detail_totalMargin = NotComputed
    /\ detail_totalMargin' = TotalMargin(detail_totals)
    /\ detail_text' = FormatPercent(TotalMargin(detail_totals))
    /\ UNCHANGED <<cost_record, cost_margin, cost_text, detail_totals,
                   detail_count>>
    /\ MarginFrame

NextMargin ==
    \/ \E record \in CostRecords : ProductCostRender(record)
    \/ DetailOpen
    \/ \E v \in Variants : DetailReduceStep(v)
    \/ DetailTotalMargin

SpecMargin == InitMargin /\ [][NextMargin]_vars

\* (profit / sales) x 100, and 0 without sales
ClaimedMargin(profit, sales) ==
    IF sales = 0 THEN <<0, 1>> ELSE <<profit * 100, sales>>

\* sales - refund - COGS - Etsy fee
ClaimedProfit(r) == r.sales - r.refund - r.cogs - r.etsy_fee

Null == 0
Keys == {1, 2}
\* the keys a fact row is given, and the dimension keys it may refer to
FactKeys == {1}
RefKeys == {1}
NaturalValues == {1}

\* column REFERENCES table(key), per fact table
ForeignKeys(t) ==
    CASE t = "fact_sales" ->
           [product_key |-> "dim_product", customer_key |-> "dim_customer",
            order_key |-> "dim_order", sale_date_key |-> "dim_time",
            ship_date_key |-> "dim_time", paid_date_key |-> "dim_time",
            geography_key |-> "dim_geography", payment_key |-> "dim_payment"]
      [] t = "fact_financial_transactions" ->
           [transaction_date_key |-> "dim_time", customer_key |-> "dim_customer",
            order_key |-> "dim_order", product_key |-> "dim_product"]
      [] t = "fact_deposits" -> [deposit_date_key |-> "dim_time"]
      [] t = "fact_payments" ->
           [customer_key |-> "dim_customer", order_key |-> "dim_order",
            payment_date_key |-> "dim_time",
            payment_method_key |-> "dim_payment"]
      [] t = "fact_bank_transactions" ->
           [bank_account_key |-> "dim_bank_account",
            transaction_date_key |-> "dim_time",
            product_catalog_key |-> "dim_product_catalog"]
      [] OTHER -> <<>>

\* tables with NOT NULL columns that have no default, the natural key aside:
\* full_date ..., country_name, payment_method, account_name, reference_number
RequiredTables == {"dim_time", "dim_geography", "dim_payment",
                   "dim_bank_account", "fact_bank_transactions"}

\* tables with a natural key: listing_id, buyer_user_name, order_id,
\* account_number, (product_line_id, product_id, variant_id)
NaturalTables == {"dim_product", "dim_customer", "dim_order",
                  "dim_bank_account", "dim_product_catalog"}
\* ... declared NOT NULL
NaturalNotNullTables == NaturalTables \ {"dim_product"}
\* ... declared UNIQUE
NaturalUniqueTables == {"dim_order", "dim_bank_account", "dim_product_catalog"}

\* the SCD Type 2 dimensions
ScdTables == {"dim_product", "dim_customer"}
FarFuture == "9999-12-31 23:59:59"
\* SCD fields of a statement: left out, or an expired version
ScdChoices == {<<>>, <<FALSE, "2024-12-31 23:59:59">>}

\* the foreign keys of a statement: all null, one column set, or all set
FkChoices(t) ==
    LET cols == DOMAIN ForeignKeys(t)
    IN  {[c \in cols |-> Null]}
          \cup {[c \in cols |-> IF c = d THEN k ELSE Null] :
                   d \in cols, k \in RefKeys}
          \cup {[c \in cols |-> k] : k \in RefKeys}

\* the rows an INSERT INTO t may carry
Statements(t) ==
    [key : IF t \in FactTables THEN FactKeys ELSE Keys,
     fks : FkChoices(t),
     required : IF t \in RequiredTables THEN BOOLEAN ELSE {TRUE},
     natural : IF t \in NaturalTables THEN NaturalValues \cup {Null} ELSE {Null},
     scd : IF t \in ScdTables THEN ScdChoices ELSE {<<>>}]

\* DEFAULT TRUE, DEFAULT '9999-12-31 23:59:59'
ApplyDefaults(t, st) ==
    [key |-> st.key, fks |-> st.fks, required |-> st.required,
     natural |-> st.natural,
     is_current |-> IF st.scd = <<>> THEN TRUE ELSE st.scd[1],
     expiry_date |-> IF st.scd = <<>> THEN FarFuture ELSE st.scd[2]]

\* REFERENCES: a key that is not null names a row of the referenced table
FkOk(t, row) ==
    \A c \in DOMAIN ForeignKeys(t) :
        \/ row.fks[c] = Null
        \/ \E d \in db[ForeignKeys(t)[c]] : d.key = row.fks[c]

\* mutant: NOT NULL is not enforced
NotNullOk_Unchecked(t, row) == TRUE

\* NOT NULL
NotNullOk(t, row) ==
    /\ row.required
    /\ t \in NaturalNotNullTables => row.natural # Null

\* PRIMARY KEY and UNIQUE
UniqueOk(t, row) ==
    /\ \A r \in db[t] : r.key # row.key
    /\ t \in NaturalUniqueTables => \A r \in db[t] : r.natural # row.natural

\* some fact row refers to row key of dimension t
Referenced(t, key) ==
    \E ft \in FactTables : \E c \in DOMAIN ForeignKeys(ft) :
        /\ ForeignKeys(ft)[c] = t
        /\ \E r \in db[ft] : r.fks[c] = key

\* mutant: a referenced row may be deleted
DeleteOk_Unchecked(t, key) == TRUE

\* ON DELETE NO ACTION
DeleteOk(t, key) == ~Referenced(t, key)

TotalRows == Cardinality(UNION {{<<t, r>> : r \in db[t]} : t \in Tables})

InitSchema ==
    /\ EnvInit
    /\ session = NoSession
    /\ password = 1
    /\ ApiIdle
    /\ LoginIdle
    /\ CPIdle
    /\ RPUnmounted
    /\ AuthUnmounted
    /\ HomeUnmounted
    /\ NoOrder
    /\ MarginIdle
    /\ EmptyWarehouse
    /\ ProfitLossUnmounted

\* INSERT INTO t
InsertRow(t, st) ==
    LET row == ApplyDefaults(t, st)
        ok == FkOk(t, row) /\ NotNullOk(t, row) /\ UniqueOk(t, row)
    IN  /\ TotalRows < MaxRows
        /\ db' = IF ok THEN [db EXCEPT ![t] = @ \cup {row}] ELSE db
        /\ db_last' = [op |-> "insert", fk |-> FkOk(t, row),
                       nullFks |-> \A c \in DOMAIN st.fks : st.fks[c] = Null,
                       notNull |-> NotNullOk(t, row),
                       unique |-> UniqueOk(t, row), accepted |-> ok]
        /\ SchemaFrame

\* DELETE FROM t WHERE key = ...
DeleteRow(t, key) ==
    /\ \E r \in db[t] : r.key = key
    /\ db' = IF DeleteOk(t, key)
               THEN [db EXCEPT ![t] = {r \in @ : r.key # key}]
               ELSE db
    /\ db_last' = [op |-> "delete", fk |-> DeleteOk(t, key), nullFks |-> TRUE,
                   notNull |-> TRUE, unique |-> TRUE,
                   accepted |-> DeleteOk(t, key)]
    /\ SchemaFrame

NextSchema ==
    \/ \E t \in Tables : \E st \in Statements(t) : InsertRow(t, st)
    \/ \E t \in Tables, key \in Keys : DeleteRow(t, key)

SpecSchema == InitSchema /\ [][NextSchema]_vars


\* every dimension key of a stored fact row is null or names a stored row
DimensionKeysResolve ==
    \A ft \in FactTables : \A r \in db[ft] : \A c \in DOMAIN ForeignKeys(ft) :
        \/ r.fks[c] = Null
        \/ \E d \in db[ForeignKeys(ft)[c]] : d.key = r.fks[c]

\* the last INSERT, if its dimension keys were all null, its NOT NULL
\* columns given and its key new, was accepted
NullKeysAccepted ==
    ( /\ db_last # NoStatement
      /\ db_last.op = "insert"
      /\ db_last.nullFks
      /\ db_last.notNull
      /\ db_last.unique )
    => db_last.accepted

\* C12: after any sequence of INSERTs and DELETEs the schema accepts, every
\* non-null dimension key stored in a fact table names an existing row of
\* the referenced dimension, and a fact row whose dimension keys are all
\* null is accepted.
C12_FactKeysResolve == DimensionKeysResolve /\ NullKeysAccepted

\* a fact row refers to a dimension row, and the DELETE of that dimension
\* row has just been refused
C12_Witness ==
    /\ \E r \in db["fact_sales"] : r.fks["sale_date_key"] # Null
    /\ db["dim_time"] # {}
    /\ \E r \in db["fact_bank_transactions"] :
          \A c \in DOMAIN r.fks : r.fks[c] = Null
    /\ db_last # NoStatement
    /\ db_last.op = "delete"
    /\ ~db_last.accepted

C14_OneCurrentRowPerBusinessKey ==
    \A t \in ScdTables :
        /\ \A r \in db[t] : \A q \in db[t] :
              ( /\ r.natural # Null
                /\ r.natural = q.natural
                /\ r.is_current
                /\ q.is_current )
              => q = r
        /\ \A st \in Statements(t) :
              st.scd = <<>> =>
                 /\ ApplyDefaults(t, st).is_current
                 /\ ApplyDefaults(t, st).expiry_date = "9999-12-31 23:59:59"


(***************************************************************************)
(* Profit & Loss page: every change of the filters re-runs the effect,     *)
(* which sends a request; each response, whenever it arrives, is written   *)
(* to data.  The effect has no cleanup and keeps no request identity.      *)
(***************************************************************************)
\* viewModes
ViewModes == {"month", "year", "month_year"}

\* r?.data || []
Payloads == {"rows", "empty"}

InitProfitLoss ==
    /\ EnvInit
    /\ session = NoSession
    /\ password = 1
    /\ ApiIdle
    /\ LoginIdle
    /\ CPIdle
    /\ RPUnmounted
    /\ AuthUnmounted
    /\ HomeUnmounted
    /\ NoOrder
    /\ MarginIdle
    /\ EmptyWarehouse
    /\ pl_filters = "month"
    /\ pl_data = NoData
    /\ pl_loading = TRUE
    /\ pl_inflight = <<"month">>
    /\ pl_changes = 0
    /\ pl_failed = FALSE

\* onChange={setViewMode} and the effect run it causes:
\* setLoading(true); fetchProfitLossSummaryTable(filters)
PLSetViewMode(mode) ==
    /\ mode # pl_filters
    /\ pl_changes < MaxChanges
    /\ pl_filters' = mode
    /\ pl_changes' = pl_changes + 1
    /\ pl_loading' = TRUE
    /\ pl_inflight' = Append(pl_inflight, mode)
    /\ UNCHANGED <<pl_data, pl_failed>>
    /\ ProfitLossFrame

\* request k resolves: .then((r) => setData(r?.data || [])),
\* .finally(() => setLoading(false))
PLResponse(k, payload) ==
    /\ k \in 1..Len(pl_inflight)
    /\ pl_data' = <<pl_inflight[k], payload>>
    /\ pl_loading' = FALSE
    /\ pl_inflight' = SubSeq(pl_inflight, 1, k - 1)
                        \o SubSeq(pl_inflight, k + 1, Len(pl_inflight))
    /\ UNCHANGED <<pl_filters, pl_changes, pl_failed>>
    /\ ProfitLossFrame

\* request k rejects: .catch(() => message.error(...)), .finally(...)
PLFailure(k) ==
    /\ k \in 1..Len(pl_inflight)
    /\ pl_failed' = TRUE
    /\ pl_loading' = FALSE
    /\ pl_inflight' = SubSeq(pl_inflight, 1, k - 1)
                        \o SubSeq(pl_inflight, k + 1, Len(pl_inflight))
    /\ UNCHANGED <<pl_filters, pl_data, pl_changes>>
    /\ ProfitLossFrame

NextProfitLoss ==
    \/ \E mode \in ViewModes : PLSetViewMode(mode)
    \/ \E k \in 1..(MaxChanges + 1), payload \in Payloads : PLResponse(k, payload)
    \/ \E k \in 1..(MaxChanges + 1) : PLFailure(k)

SpecProfitLoss == InitProfitLoss /\ [][NextProfitLoss]_vars

\* C15 as stated: once every summary-table request has settled (none of them
\* rejected), the table shows the response to the filters selected last,
\* whatever the order in which the responses arrived.
C15_TableShowsLatestFilters ==
    (pl_inflight = <<>> /\ ~pl_failed)
        => (pl_data # NoData /\ pl_data[1] = pl_filters)

====
